---- MODULE Spec2Model ----
(***************************************************************************)
(* The McFly history importer (atuin-client/src/import/mcfly.rs).          *)
(*                                                                         *)
(* One importer run: McFly::new() resolves the database path, connects,    *)
(* runs the one ordered query and buffers the decoded rows; entries()      *)
(* counts the buffer; load(self, sink) converts each buffered row into a   *)
(* History record and pushes it, awaiting the sink after every push.       *)
(*                                                                         *)
(* Option<T> values are sequences of length 0 (None) or 1 (Some).          *)
(* An i64 is the pair [hi, lo] that stands for hi * 10^9 + lo with         *)
(* 0 <= lo < 10^9, so that ids beyond 2^31 keep their magnitude.           *)
(***************************************************************************)
EXTENDS Integers, Sequences, FiniteSets, TLC

VARIABLES
    envVar,        \* Option<String>: value of $MCFLY_HISTORY_FILE
    homeDir,       \* Option<Path>: what UserDirs::new() can find
    files,         \* the paths that exist on disk
    store,         \* the sqlite database behind the path
    pc,            \* where the single thread of control is
    candidate,     \* Option<Path>: what path_candidate() returned
    newResult,     \* outcome of McFly::new()
    mcfly,         \* Option<McFly>: the importer instance, while it is owned
    entriesCalls,  \* number of entries() calls made
    entriesResult, \* Option<usize>: what the last entries() returned
    loads,         \* number of load() calls started
    iter,          \* load's iterator over the moved-out buffer
    pending,       \* Option<History>: the record of the push being awaited
    mapped,        \* number of McFlyEntry -> History conversions performed
    pushes,        \* number of pushes issued to the sink
    delivered,     \* the records the sink has accepted, in order
    sinkFailure,   \* Option<Error>: the error the sink answered a push with
    loadResult     \* outcome of load()

vars == <<envVar, homeDir, files, store, pc, candidate, newResult, mcfly,
          entriesCalls, entriesResult, loads, iter, pending, mapped, pushes,
          delivered, sinkFailure, loadResult>>

-----------------------------------------------------------------------------
(* Bounds *)

MaxRows == 3

MaxEntriesCalls == 2

-----------------------------------------------------------------------------
(* 64-bit integers *)

I64(hi, lo) == [hi |-> hi, lo |-> lo]

I64Less(a, b) == a.hi < b.hi \/ (a.hi = b.hi /\ a.lo < b.lo)

\* i64 -> u32 conversion (TryInto): fails below 0 and above u32::MAX = 4294967295
TryIntoU32(x) ==
    IF x.hi >= 0 /\ (x.hi < 4 \/ (x.hi = 4 /\ x.lo <= 294967295))
    THEN [ok |-> TRUE, val |-> x]
    ELSE [ok |-> FALSE, val |-> x]

\* from_timestamp carrying whole seconds of nsecs away instead of keeping them
FromTimestampWrapped(secs, nsecs) ==
    IF nsecs.hi < 2
    THEN [ok |-> TRUE, val |-> [secs |-> secs, nanos |-> nsecs.lo]]
    ELSE [ok |-> FALSE, val |-> [secs |-> secs, nanos |-> 0]]

\* NaiveDateTime::from_timestamp(secs, nsecs) panics on an invalid nanosecond:
\* nsecs >= 2_000_000_000 (values 10^9 .. 2*10^9 - 1 denote a leap second)
FromTimestamp(secs, nsecs) ==
    IF nsecs.hi < 2
    THEN [ok |-> TRUE, val |-> [secs |-> secs, nanos |-> nsecs.hi * 1000000000 + nsecs.lo]]
    ELSE [ok |-> FALSE, val |-> [secs |-> secs, nanos |-> 0]]

-----------------------------------------------------------------------------
(* The source table *)

RequiredColumns == {"id", "when_run", "exit_code", "cmd", "dir"}

Ids == {I64(0, 1), I64(0, 2), I64(0, 3), I64(1, 0), I64(2, 0), I64(4, 294967296)}

\* when_run, exit_code, cmd, dir of a row (dir is nullable in the commands schema)
Payloads == {
    [when_run |-> 1000, exit_code |-> 0, cmd |-> "pwd", dir |-> <<"/home/x">>],
    [when_run |-> 1000, exit_code |-> 0, cmd |-> "ls", dir |-> <<"/home/x">>],
    [when_run |-> 1001, exit_code |-> 1, cmd |-> "cd ..", dir |-> <<"/home/x">>],
    [when_run |-> 1001, exit_code |-> 0, cmd |-> "ls", dir |-> <<>>] }

Row(id, p) ==
    [id |-> id, when_run |-> p.when_run, exit_code |-> p.exit_code, cmd |-> p.cmd,
     dir |-> p.dir]

\* tables of at most MaxRows rows; id is the primary key
RowSets ==
    UNION { { { Row(i, f[i]) : i \in S } : f \in [S -> Payloads] }
            : S \in { T \in SUBSET Ids : Cardinality(T) <= MaxRows } }

Stores ==
    { [tables |-> {"commands", "schema_versions"}, columns |-> RequiredColumns \cup {"cmd_tpl"}, rows |-> R]
        : R \in RowSets }
    \cup { [tables |-> {"schema_versions"}, columns |-> {}, rows |-> {}],
           [tables |-> {"commands"}, columns |-> RequiredColumns \ {"dir"}, rows |-> {}] }

-----------------------------------------------------------------------------
(* struct McFlyEntry and its FromRow decoding *)

\* every field of McFlyEntry is non-optional: a NULL dir does not decode
Decodable(row) == row.dir # <<>>

McFlyEntry(row) ==
    [id |-> row.id, when_run |-> row.when_run, exit_code |-> row.exit_code,
     cmd |-> row.cmd, dir |-> row.dir[1]]

\* the query without a usable order: rows come back by descending id
RECURSIVE OrderByIdDesc(_)
OrderByIdDesc(R) ==
    IF R = {} THEN <<>>
    ELSE LET last == CHOOSE r \in R : \A s \in R \ {r} : I64Less(s.id, r.id)
         IN  <<last>> \o OrderByIdDesc(R \ {last})

\* "order by commands.id"
RECURSIVE OrderById(_)
OrderById(R) ==
    IF R = {} THEN <<>>
    ELSE LET first == CHOOSE r \in R : \A s \in R \ {r} : I64Less(r.id, s.id)
         IN  <<first>> \o OrderById(R \ {first})

-----------------------------------------------------------------------------
(* impl From<McFlyEntry> for History *)

History(ts, cmd, cwd, exit, duration, session, hostname) ==
    [timestamp |-> ts, command |-> cmd, cwd |-> cwd, exit |-> exit,
     duration |-> duration, session |-> session, hostname |-> hostname]

\* when_run.timestamp(): the second value of the decoded NaiveDateTime
Timestamp(when_run) == when_run

NoHistory == History([secs |-> 0, nanos |-> 0], "", "", 0, 0, <<>>, <<>>)

\* the conversion without the id: every record on the full second
IntoHistoryNoNanos(e) ==
    [ok |-> TryIntoU32(e.id).ok /\ FromTimestamp(Timestamp(e.when_run), e.id).ok,
     val |-> History([secs |-> Timestamp(e.when_run), nanos |-> 0], e.cmd, e.dir,
                     e.exit_code, 0, <<>>, <<>>)]

\* ok = FALSE is a panic: try_into().unwrap() or from_timestamp's range check
IntoHistory(e) ==
    LET n == TryIntoU32(e.id) IN
    IF ~n.ok THEN [ok |-> FALSE, val |-> NoHistory]
    ELSE LET dt == FromTimestamp(Timestamp(e.when_run), n.val) IN
         IF ~dt.ok THEN [ok |-> FALSE, val |-> NoHistory]
         ELSE [ok |-> TRUE,
               val |-> History(dt.val, e.cmd, e.dir, e.exit_code, 0, <<>>, <<>>)]

-----------------------------------------------------------------------------
(* hist_from_db_conn: the query and its decoding *)

\* fetch_all: every row of the result decoded, in the order of the result
FetchAll(rows) == [i \in 1..Len(rows) |-> McFlyEntry(rows[i])]

\* extraction that takes a missing table for an empty one
hist_from_db_conn_no_table(db) ==
    IF "commands" \notin db.tables
    THEN [ok |-> TRUE, err |-> "", val |-> <<>>]
    ELSE IF ~(RequiredColumns \subseteq db.columns) \/ (\E r \in db.rows : ~Decodable(r))
    THEN [ok |-> FALSE, err |-> "QueryError", val |-> <<>>]
    ELSE [ok |-> TRUE, err |-> "", val |-> FetchAll(OrderById(db.rows))]

\* extraction that leaves out the rows that do not decode
hist_from_db_conn_lenient(db) ==
    IF "commands" \notin db.tables \/ ~(RequiredColumns \subseteq db.columns)
    THEN [ok |-> FALSE, err |-> "QueryError", val |-> <<>>]
    ELSE [ok |-> TRUE, err |-> "",
          val |-> FetchAll(OrderById({ r \in db.rows : Decodable(r) }))]

hist_from_db_conn(db) ==
    IF "commands" \notin db.tables \/ ~(RequiredColumns \subseteq db.columns)
    THEN [ok |-> FALSE, err |-> "QueryError", val |-> <<>>]
    ELSE IF \E r \in db.rows : ~Decodable(r)
    THEN [ok |-> FALSE, err |-> "QueryError", val |-> <<>>]
    ELSE [ok |-> TRUE, err |-> "", val |-> FetchAll(OrderById(db.rows))]

-----------------------------------------------------------------------------
(* McFly::path_candidate and McFly::path *)

OverridePath == "nonstd-mcfly-history.db"

HomePath == <<"/home/u">>

PathNew(x) == <<x>>

Join(p, q) == p \o q

\* ok = FALSE is the panic of UserDirs::new().unwrap()
path_candidate(var, home) ==
    IF home = <<>> THEN [ok |-> FALSE, val |-> <<>>]
    ELSE IF var # <<>> THEN [ok |-> TRUE, val |-> PathNew(var[1])]
    ELSE [ok |-> TRUE, val |-> Join(home[1], <<".mcfly", "history.db">>)]

Paths == { PathNew(OverridePath), Join(HomePath, <<".mcfly", "history.db">>) }

-----------------------------------------------------------------------------
(* The importer *)

SinkErrors == {"SinkErrorA", "SinkErrorB"}

Init ==
    /\ envVar \in {<<>>, <<OverridePath>>}
    /\ homeDir \in {<<>>, <<HomePath>>}
    /\ files \in SUBSET Paths
    /\ store \in Stores
    /\ pc = "start"
    /\ candidate = <<>>
    /\ newResult = "none"
    /\ mcfly = <<>>
    /\ entriesCalls = 0
    /\ entriesResult = <<>>
    /\ loads = 0
    /\ iter = <<>>
    /\ pending = <<>>
    /\ mapped = 0
    /\ pushes = 0
    /\ delivered = <<>>
    /\ sinkFailure = <<>>
    /\ loadResult = "none"

\* new(): let dbpath = McFly::path()?;
NewPath ==
    /\ pc = "start"
    /\ LET c == path_candidate(envVar, homeDir) IN
       IF ~c.ok
       THEN /\ pc' = "panicked"
            /\ UNCHANGED <<candidate, newResult>>
       ELSE /\ candidate' = <<c.val>>
            /\ IF c.val \in files
               THEN pc' = "resolved" /\ UNCHANGED newResult
               ELSE pc' = "idle" /\ newResult' = "PathNotFound"
    /\ UNCHANGED <<envVar, homeDir, files, store, mcfly, entriesCalls, entriesResult,
                   loads, iter, pending, mapped, pushes, delivered, loadResult, sinkFailure>>

\* hist_from_db: SqlitePool::connect(dbpath).await?
NewConnect ==
    /\ pc = "resolved"
    /\ \E opened \in BOOLEAN :
          IF opened
          THEN pc' = "connected" /\ UNCHANGED newResult
          ELSE pc' = "idle" /\ newResult' = "ConnectionError"
    /\ UNCHANGED <<envVar, homeDir, files, store, candidate, mcfly, entriesCalls,
                   entriesResult, loads, iter, pending, mapped, pushes, delivered,
                   loadResult, sinkFailure>>

\* hist_from_db_conn(pool).await?; Ok(Self { entries })
NewFetch ==
    /\ pc = "connected"
    /\ LET r == hist_from_db_conn(store) IN
       IF r.ok
       THEN mcfly' = <<[entries |-> r.val]>> /\ newResult' = "Ok"
       ELSE mcfly' = <<>> /\ newResult' = r.err
    /\ pc' = "idle"
    /\ UNCHANGED <<envVar, homeDir, files, store, candidate, entriesCalls,
                   entriesResult, loads, iter, pending, mapped, pushes, delivered,
                   loadResult, sinkFailure>>

\* entries(&mut self)
Entries ==
    /\ pc = "idle"
    /\ mcfly # <<>>
    /\ entriesCalls < MaxEntriesCalls
    /\ entriesCalls' = entriesCalls + 1
    /\ entriesResult' = <<Len(mcfly[1].entries)>>
    /\ UNCHANGED <<envVar, homeDir, files, store, pc, candidate, newResult, mcfly,
                   loads, iter, pending, mapped, pushes, delivered, loadResult, sinkFailure>>

\* load taking the importer by reference: the instance stays usable
LoadStartBorrowed ==
    /\ pc = "idle"
    /\ mcfly # <<>>
    /\ iter' = mcfly[1].entries
    /\ loads' = loads + 1
    /\ pc' = "loading"
    /\ UNCHANGED <<envVar, homeDir, files, store, candidate, newResult, mcfly,
                   entriesCalls, entriesResult, pending, mapped, pushes, delivered,
                   loadResult, sinkFailure>>

\* load(self, h): self is moved into the call, self.entries into the iterator
LoadStart ==
    /\ pc = "idle"
    /\ mcfly # <<>>
    /\ iter' = mcfly[1].entries
    /\ mcfly' = <<>>
    /\ loads' = loads + 1
    /\ pc' = "loading"
    /\ UNCHANGED <<envVar, homeDir, files, store, candidate, newResult, entriesCalls,
                   entriesResult, pending, mapped, pushes, delivered, loadResult, sinkFailure>>

\* load converting the whole buffer up front, before its first push
LoadNextEager ==
    /\ pc = "loading"
    /\ iter # <<>>
    /\ IF \A k \in 1..Len(iter) : IntoHistory(iter[k]).ok
       THEN /\ pending' = <<IntoHistory(Head(iter)).val>>
            /\ iter' = Tail(iter)
            /\ mapped' = IF pushes = 0 THEN Len(iter) ELSE mapped
            /\ pushes' = pushes + 1
            /\ pc' = "pushing"
       ELSE /\ pc' = "panicked"
            /\ UNCHANGED <<pending, iter, mapped, pushes>>
    /\ UNCHANGED <<envVar, homeDir, files, store, candidate, newResult, mcfly,
                   entriesCalls, entriesResult, loads, delivered, loadResult, sinkFailure>>

\* one iteration up to the await: h.push(i.into())
LoadNext ==
    /\ pc = "loading"
    /\ iter # <<>>
    /\ LET h == IntoHistory(Head(iter)) IN
       IF h.ok
       THEN /\ pending' = <<h.val>>
            /\ iter' = Tail(iter)
            /\ mapped' = mapped + 1
            /\ pushes' = pushes + 1
            /\ pc' = "pushing"
       ELSE /\ pc' = "panicked"
            /\ UNCHANGED <<pending, iter, mapped, pushes>>
    /\ UNCHANGED <<envVar, homeDir, files, store, candidate, newResult, mcfly,
                   entriesCalls, entriesResult, loads, delivered, loadResult, sinkFailure>>

\* the sink accepts the push; the loop goes on
PushOk ==
    /\ pc = "pushing"
    /\ delivered' = Append(delivered, pending[1])
    /\ pending' = <<>>
    /\ pc' = "loading"
    /\ UNCHANGED <<envVar, homeDir, files, store, candidate, newResult, mcfly,
                   entriesCalls, entriesResult, loads, iter, mapped, pushes, loadResult, sinkFailure>>

\* the sink fails the push and the loop carries on with the next record
PushErrSwallowed ==
    /\ pc = "pushing"
    /\ \E e \in SinkErrors : sinkFailure' = <<e>>
    /\ pending' = <<>>
    /\ pc' = "loading"
    /\ UNCHANGED <<envVar, homeDir, files, store, candidate, newResult, mcfly,
                   entriesCalls, entriesResult, loads, iter, mapped, pushes, delivered,
                   loadResult>>

\* the sink fails the push; `?` returns the error and drops the iterator
PushErr ==
    /\ pc = "pushing"
    /\ \E e \in SinkErrors : sinkFailure' = <<e>> /\ loadResult' = e
    /\ pending' = <<>>
    /\ iter' = <<>>
    /\ pc' = "idle"
    /\ UNCHANGED <<envVar, homeDir, files, store, candidate, newResult, mcfly,
                   entriesCalls, entriesResult, loads, mapped, pushes, delivered>>

\* the iterator is exhausted: Ok(())
LoadDone ==
    /\ pc = "loading"
    /\ iter = <<>>
    /\ loadResult' = "Ok"
    /\ pc' = "idle"
    /\ UNCHANGED <<envVar, homeDir, files, store, candidate, newResult, mcfly,
                   entriesCalls, entriesResult, loads, iter, pending, mapped, pushes,
                   delivered, sinkFailure>>

Next ==
    \/ NewPath
    \/ NewConnect
    \/ NewFetch
    \/ Entries
    \/ LoadStart
    \/ LoadNext
    \/ PushOk
    \/ PushErr
    \/ LoadDone

Spec == Init /\ [][Next]_vars

-----------------------------------------------------------------------------
(* What the claims are stated over *)

NRows == Cardinality(store.rows)

\* the rows of the table carry exactly the ids 1..n
IdsOneToN == { r.id : r \in store.rows } = { I64(0, k) : k \in 1..NRows }

RowWithId(k) == CHOOSE r \in store.rows : r.id = I64(0, k)

\* the row that is i-th in ascending id
RowAt(i) ==
    CHOOSE r \in store.rows : Cardinality({ s \in store.rows : I64Less(s.id, r.id) }) = i - 1

\* the records handed to the sink so far, in push order
Issued == delivered \o pending

\* record h is the canonical record of source row r
Mapped(h, r) ==
    /\ h.timestamp.secs = r.when_run
    /\ r.id.hi \in {0, 1}
    /\ h.timestamp.nanos = r.id.hi * 1000000000 + r.id.lo
    /\ h.command = r.cmd
    /\ r.dir # <<>>
    /\ h.cwd = r.dir[1]
    /\ h.exit = r.exit_code
    /\ h.duration = 0
    /\ h.session = <<>>
    /\ h.hostname = <<>>

-----------------------------------------------------------------------------
(* C1: for a table whose rows have ids 1..n, a successfully constructed   *)
(* importer's entries() returns n, and a load whose pushes are all        *)
(* accepted pushes the n records once each in ascending id, never aborts, *)
(* and returns Ok (no push at all when n = 0).                            *)
C1_CountAndOrderedDelivery ==
    (newResult = "Ok" /\ IdsOneToN) =>
        /\ entriesResult # <<>> => entriesResult[1] = NRows
        /\ pc # "panicked"
        /\ \A i \in 1..Len(Issued) :
              /\ i <= NRows
              /\ Issued[i].timestamp.nanos = i
              /\ Issued[i].command = RowWithId(i).cmd
        /\ sinkFailure = <<>> => pushes = Len(Issued)
        /\ (loads > 0 /\ sinkFailure = <<>>) => Len(Issued) + Len(iter) = NRows
        /\ (loads > 0 /\ sinkFailure = <<>> /\ pc = "idle") =>
              loadResult = "Ok" /\ Len(delivered) = NRows

C1_Witness ==
    /\ IdsOneToN
    /\ NRows = 3
    /\ entriesResult = <<3>>
    /\ loadResult = "Ok"
    /\ Len(delivered) = 3

(* C2: when the sink fails the k-th push, load returns that very error at *)
(* once: the first k-1 records, in ascending id, stay accepted, and no    *)
(* later record is pushed.                                                *)
C2_SinkFailureStopsLoad ==
    sinkFailure # <<>> =>
        /\ loadResult = sinkFailure[1]
        /\ pc = "idle"
        /\ mcfly = <<>>
        /\ pending = <<>>
        /\ iter = <<>>
        /\ pushes >= 1
        /\ Len(delivered) = pushes - 1
        /\ \A i \in 1..Len(delivered) :
              /\ RowAt(i).id.hi \in {0, 1}
              /\ delivered[i].timestamp.nanos = RowAt(i).id.hi * 1000000000 + RowAt(i).id.lo

C2_Witness ==
    /\ sinkFailure = <<"SinkErrorB">>
    /\ loadResult = "SinkErrorB"
    /\ NRows = 3
    /\ pushes = 2
    /\ Len(delivered) = 1

(* C3: every record the mapping yields has when_run's second, the row id  *)
(* as nanosecond, cmd, dir and exit_code unchanged, duration 0 and no     *)
(* session id or hostname.                                                *)
C3_MappedFields ==
    \A i \in 1..Len(Issued) : i <= NRows /\ Mapped(Issued[i], RowAt(i))

C3_Witness ==
    /\ Len(delivered) = 3
    /\ delivered[1].timestamp = [secs |-> 1000, nanos |-> 1]
    /\ delivered[2].timestamp = [secs |-> 1000, nanos |-> 2]
    /\ delivered[3].timestamp = [secs |-> 1001, nanos |-> 3]
    /\ delivered[1].command = "pwd"
    /\ delivered[2].command = "ls"
    /\ delivered[3].command = "cd .."
    /\ delivered[3].exit = 1

(* C4: the mapping is total: whatever the 64-bit id of a row, converting  *)
(* it yields a record and never aborts.                                   *)
C4_MappingNeverAborts ==
    ~(loads > 0 /\ pc = "panicked")

(* C5: with MCFLY_HISTORY_FILE set to P, path_candidate() returns exactly *)
(* P whatever the home directory and whether or not P exists; path()      *)
(* returns it when it exists and fails with PathNotFound otherwise.       *)
C5_OverrideAlwaysReturned ==
    (envVar # <<>> /\ pc # "start") =>
        /\ candidate = <<PathNew(envVar[1])>>
        /\ PathNew(envVar[1]) \notin files => newResult = "PathNotFound"
        /\ PathNew(envVar[1]) \in files => newResult # "PathNotFound"

\* the table cannot be extracted: no commands table, a column missing, or a
\* row that does not decode
TableBad ==
    \/ "commands" \notin store.tables
    \/ ~(RequiredColumns \subseteq store.columns)
    \/ \E r \in store.rows : r.dir = <<>>

C7_SingleUse ==
    /\ [](/\ loads <= 1
          /\ entriesResult # <<>> => entriesResult[1] = NRows
          /\ loads > 0 => mcfly = <<>>
          /\ loadResult # "none" => iter = <<>> /\ pending = <<>> /\ pc = "idle"
          /\ mcfly # <<>> => newResult = "Ok" /\ loads = 0 /\ loadResult = "none"
          /\ Len(delivered) <= NRows
          /\ \A i, j \in 1..Len(delivered) : i # j => delivered[i] # delivered[j])
    /\ [][/\ entriesCalls' # entriesCalls =>
                /\ mcfly # <<>>
                /\ mcfly' = mcfly
                /\ loads' = 0
                /\ entriesResult' = <<Len(mcfly[1].entries)>>
                /\ UNCHANGED <<iter, pending, delivered, pushes, mapped, loadResult>>
          /\ loads' # loads => loads = 0 /\ mcfly # <<>> /\ mcfly' = <<>>]_vars

C7_Witness ==
    /\ entriesCalls = 2
    /\ entriesResult = <<2>>
    /\ loadResult = "Ok"
    /\ Len(delivered) = 2
    /\ mcfly = <<>>

(* C8 as stated: every row is mapped during construction, so all          *)
(* mappings are complete before load makes its first push.                *)
C8_AllMappedBeforeFirstPush ==
    /\ pushes >= 1 => mapped = NRows
    /\ delivered # <<>> => pc # "panicked"

(* C8 as amended: construction buffers the decoded rows unmapped, in id   *)
(* order; load maps each row right before its own push, so there are as   *)
(* many mappings as pushes and row k is mapped only once the records      *)
(* 1..k-1 have been accepted.                                             *)
C8_MappedLazilyInLoad ==
    /\ loads = 0 => mapped = 0
    /\ mcfly # <<>> =>
          /\ Len(mcfly[1].entries) = NRows
          /\ \A i \in 1..NRows : mcfly[1].entries[i] = McFlyEntry(RowAt(i))
    /\ mapped = pushes
    /\ mapped <= Len(delivered) + 1
    /\ pc = "pushing" => mapped = Len(delivered) + 1 /\ mapped + Len(iter) = NRows

C8_Witness ==
    /\ pc = "pushing"
    /\ Len(delivered) = 1
    /\ mapped = 2
    /\ Len(iter) = 1

\* chrono's Ord on timestamps: by second, then by the nanosecond field
TsLess(a, b) == a.secs < b.secs \/ (a.secs = b.secs /\ a.nanos < b.nanos)

\* when_run never decreases as id grows
WhenRunMonotone ==
    \A r, s \in store.rows : I64Less(r.id, s.id) => r.when_run <= s.when_run

(* C9: the nanosecond taken from the id is an order-preserving tiebreak:  *)
(* two rows of the same second map to distinct timestamps, the smaller id *)
(* strictly earlier; and when when_run never decreases as id grows, the   *)
(* timestamps the sink sees are strictly increasing.                      *)
C9_OrderPreservingTiebreak ==
    /\ \A r, s \in store.rows :
          LET hr == IntoHistory(McFlyEntry(r))
              hs == IntoHistory(McFlyEntry(s))
          IN  (Decodable(r) /\ Decodable(s) /\ r.when_run = s.when_run
                  /\ I64Less(r.id, s.id) /\ hr.ok /\ hs.ok) =>
                 TsLess(hr.val.timestamp, hs.val.timestamp)
    /\ \A i, j \in 1..Len(Issued) :
          (i < j /\ Issued[i].timestamp.secs = Issued[j].timestamp.secs) =>
             TsLess(Issued[i].timestamp, Issued[j].timestamp)
    /\ WhenRunMonotone =>
          \A i \in 1..(Len(Issued) - 1) : TsLess(Issued[i].timestamp, Issued[i + 1].timestamp)

C9_Witness ==
    /\ WhenRunMonotone
    /\ Len(delivered) = 3
    /\ delivered[2].timestamp.secs = 1001
    /\ delivered[3].timestamp = [secs |-> 1001, nanos |-> 1000000000]

====
